---------------------------- MODULE Spec2Model ----------------------------
(***************************************************************************)
(* A model of dispatches/workflow/workflow.py: the provenance store as     *)
(* ManagedWorkflow uses it (get_dataset, run_script, run), the             *)
(* OutputCollector's worker threads, and the Dataset value object.         *)
(*                                                                         *)
(* Three specifications share the module's variables:                      *)
(*   Spec           one ManagedWorkflow driving one store                  *)
(*   SpecCollector  OutputCollector.collect on one subprocess              *)
(*   SpecDataset    operations on Dataset objects                          *)
(* Each leaves the variables of the other two at their initial values.     *)
(***************************************************************************)
EXTENDS Integers, Sequences, FiniteSets, TLC

VARIABLES
    resources,   \* the store's resources, in order of dmf.add; the id is the index
    relations,   \* the store's committed relations: [subj, pred, obj]
    last,        \* what the latest call of the workflow did
    config,      \* OutputCollector: the stream methods and whether _delim is set
    prog,        \* the lines the subprocess has still to write
    pipe,        \* the lines in the stdout and stderr pipes
    proc,        \* the subprocess: "running" or "exited"
    thr,         \* the threads of collect: "new", "running", "done", "crashed"
    mainpc,      \* where collect is
    delivered,   \* per stream, the lines written to its destination
    consumed,    \* per stream, the number of lines read from the pipe
    markers,     \* the progress marks written to sys.stdout
    closed,      \* per stream, whether stream.close() was called
    ds,          \* the Dataset objects made so far: [name, meta]
    dsLast,      \* the latest operation on a Dataset and whether it raised
    pending      \* per orchestrator sharing the store, its call in progress

wfvars == <<resources, relations, last, pending>>

colvars ==
    <<config, prog, pipe, proc, thr, mainpc, delivered, consumed, markers,
      closed>>

dsvars == <<ds, dsLast>>

vars == <<wfvars, colvars, dsvars>>

(***************************************************************************)
(* Bounds of the model.                                                    *)
(***************************************************************************)
MaxRes == 3        \* resources the store may hold
MaxLines == 3      \* lines the subprocess writes
MaxCap == 2        \* lines a pipe holds before a write blocks
MaxDatasets == 2   \* Dataset objects made
MaxVal == 2        \* distinct metadata values and resources

(***************************************************************************)
(* Names.                                                                  *)
(***************************************************************************)
RTS_GMLC == "rts-gmlc"

RunnerName == "dispatches.workflow.rts_gmlc.runner"

UserStep == "user.module.step"

StepFns == {RunnerName, UserStep}

Filenames == {"a.py", "b.py"}

\* "bogus" stands for every tag _get_factory_function does not know
TypeTags == {RTS_GMLC, "null", "script", "bogus"}

\* what a step function may return: no outputs, or a mapping with these keys
OutputChoices == {<<>>, <<"out">>}

\* how a call of the step function ends: it raises, or returns outputs
Raises == <<"raise">>

StepResults == {Raises} \cup OutputChoices

uses == "uses"

derived == "derived"

(***************************************************************************)
(* The store (idaes.dmf.DMF), as the workflow sees it.                     *)
(***************************************************************************)
Range(s) == {s[i] : i \in DOMAIN s}

Min(S) == CHOOSE x \in S : \A y \in S : x <= y

\* dmf.find(name=...): the ids of the resources with that name
Find(res, name) == {i \in DOMAIN res : res[i].name = name}

\* dmf.find_one(name=...): one of them (the first stored), 0 for None
FindOne(res, name) == IF Find(res, name) = {} THEN 0 ELSE Min(Find(res, name))

\* dmf.find_related(r, outgoing=True, maxdepth=1): (predicate, target id) pairs
FindRelated(rel, rid) == {<<t.pred, t.obj>> : t \in {u \in rel : u.subj = rid}}

\* dmf.add(r): the resource gets the next identifier
Add(res, name, desc) == Append(res, [name |-> name, desc |-> desc])


(***************************************************************************)
(* DatasetFactory and Dataset, as far as the workflow needs them.          *)
(***************************************************************************)
\* _get_factory_function raises KeyError for any other tag
KnownType(type_) == type_ \in {RTS_GMLC, "null", "script"}

\* the name of the Dataset each creation function builds
DatasetName(type_, path) == IF type_ = "script" THEN "script:" \o path ELSE type_

(***************************************************************************)
(* The inputs argument of run: None, one Dataset, or a list of Datasets.   *)
(* A Dataset is given by its resource_id.                                  *)
(***************************************************************************)
\* Dataset.from_resource: the stored resources a caller can hold a Dataset
\* for, every resource that is not a processing step
Datasets(res) == {i \in DOMAIN res : res[i].desc # "step"}

NoInputs == [form |-> "none", list |-> <<>>]

\* the members of T in increasing order, and a list turned round
Sorted(T) ==
    CHOOSE l \in [1..Cardinality(T) -> T] :
        \A i, j \in 1..Cardinality(T) : i < j => l[i] < l[j]

Reverse(l) == [i \in 1..Len(l) |-> l[Len(l) + 1 - i]]

\* the lists a caller makes of the Datasets T: in the order of their
\* creation, in the opposite order, and with the first one given twice
ListsOf(T) ==
    IF T = {} THEN {<<>>}
    ELSE {Sorted(T), Reverse(Sorted(T)), Append(Sorted(T), Min(T))}

\* what a caller may pass as inputs: None, one Dataset, or a list of Datasets
InputChoices(h) ==
    {NoInputs}
      \cup {[form |-> "single", list |-> <<i>>] : i \in h}
      \cup {[form |-> "list", list |-> l] : l \in UNION {ListsOf(T) : T \in SUBSET h}}

\* run: "Normalize inputs to a list, unless None"
Normalize(inputs) ==
    IF inputs.form = "single" THEN [form |-> "list", list |-> inputs.list]
    ELSE inputs

\* (mutation) only the first input is compared
InputIds_FirstOnly(inputs) ==
    IF inputs.form = "none" THEN [isNone |-> TRUE, ids |-> {}]
    ELSE [isNone |-> FALSE,
          ids |-> IF inputs.list = <<>> THEN {} ELSE {Head(inputs.list)}]

\* run: input_ids, None or the set of the inputs' resource ids
InputIds(inputs) ==
    IF inputs.form = "none" THEN [isNone |-> TRUE, ids |-> {}]
    ELSE [isNone |-> FALSE, ids |-> Range(inputs.list)]

\* (mutation) the relations are read with the wrong predicate
ProcStepInputIds_Derived(rel, sid) ==
    {p[2] : p \in {q \in FindRelated(rel, sid) : q[1] = derived}}

\* run: the targets of a stored step's outgoing uses relations
ProcStepInputIds(rel, sid) ==
    {p[2] : p \in {q \in FindRelated(rel, sid) : q[1] = uses}}

\* (mutation) a stored step of that name matches whatever its inputs were
StepMatches_ByNameOnly(rel, sid, input_ids) == TRUE

\* (mutation) only a call without inputs can match a stored step
StepMatches_NoneOnly(rel, sid, input_ids) ==
    input_ids.isNone /\ Cardinality(ProcStepInputIds(rel, sid)) = 0

\* (mutation) an empty input list matches no stored step
StepMatches_EmptyNeverMatches(rel, sid, input_ids) ==
    \/ input_ids.isNone /\ Cardinality(ProcStepInputIds(rel, sid)) = 0
    \/ /\ ~input_ids.isNone
       /\ input_ids.ids # {}
       /\ ProcStepInputIds(rel, sid) = input_ids.ids

\* run: the test that a stored step was run with these inputs
StepMatches(rel, sid, input_ids) ==
    \/ input_ids.isNone /\ Cardinality(ProcStepInputIds(rel, sid)) = 0
    \/ ~input_ids.isNone /\ ProcStepInputIds(rel, sid) = input_ids.ids

\* run: the idempotency check over every resource named step_name
Existing(res, rel, step_name, input_ids) ==
    \E sid \in Find(res, step_name) : StepMatches(rel, sid, input_ids)

\* run: the step resource, its uses relations, the output resources and their
\* derived relations, all committed by the closing dmf.update()
InputRelations(sid, inputs) ==
    IF inputs.form = "none" THEN {}
    ELSE {[subj |-> sid, pred |-> uses, obj |-> i] : i \in Range(inputs.list)}

\* (mutation) the derived relation is created from the step to the output
OutputRelations_FromStep(sid, outputs) ==
    {[subj |-> sid, pred |-> derived, obj |-> sid + j] : j \in DOMAIN outputs}

OutputRelations(sid, outputs) ==
    {[subj |-> sid + j, pred |-> derived, obj |-> sid] : j \in DOMAIN outputs}

AddOutputs(res, outputs) ==
    res \o [j \in DOMAIN outputs |-> [name |-> outputs[j], desc |-> "output"]]

Persist(res, rel, step_name, inputs, outputs) ==
    LET sid == Len(res) + 1
    IN  [res |-> AddOutputs(Add(res, step_name, "step"), outputs),
         rel |-> rel \cup InputRelations(sid, inputs)
                     \cup OutputRelations(sid, outputs)]

\* (mutation) the step resource is added before the step function is invoked
RunCall_AddsThenInvokes(res, rel, step_name, given, skip_check, outputs) ==
    LET inputs == Normalize(given)
        existing == ~skip_check /\ Existing(res, rel, step_name, InputIds(inputs))
        p == Persist(res, rel, step_name, inputs, outputs)
    IN  IF existing
        THEN [res |-> res, rel |-> rel, outcome |-> "skipped", found |-> 1]
        ELSE IF outputs = Raises
        THEN [res |-> Add(res, step_name, "step"), rel |-> rel,
              outcome |-> "failed", found |-> 0]
        ELSE [res |-> p.res, rel |-> p.rel, outcome |-> "ran", found |-> 0]

\* run, whole: what the call leaves in the store and how it ended.
\* outputs: what the step function does when invoked (Raises, or the keys of
\* the mapping it returns)
RunCall(res, rel, step_name, given, skip_check, outputs) ==
    LET inputs == Normalize(given)
        existing == ~skip_check /\ Existing(res, rel, step_name, InputIds(inputs))
        p == Persist(res, rel, step_name, inputs, outputs)
    IN  IF existing
        THEN [res |-> res, rel |-> rel, outcome |-> "skipped", found |-> 1]
        ELSE IF outputs = Raises
        THEN [res |-> res, rel |-> rel, outcome |-> "failed", found |-> 0]
        ELSE [res |-> p.res, rel |-> p.rel, outcome |-> "ran", found |-> 0]

(***************************************************************************)
(* Dataset: a name and the metadata dictionary _meta.  A metadata value,   *)
(* and a resource, is one of 1..MaxVal; Unset says the key is not in       *)
(* _meta.  Resource r has the name, datafiles_dir and datafiles r.         *)
(***************************************************************************)
Unset == 0

Values == 1..MaxVal

MetaKeys == {"directory", "files", "resource", "note"}

\* Dataset.__init__: self._meta = {}
NewDataset(name) == [name |-> name, meta |-> [k \in MetaKeys |-> Unset]]

\* Dataset.add_meta: self._meta[key] = value
add_meta(d, key, value) == [d EXCEPT !.meta[key] = value]

\* Dataset.resource, the getter: self._meta.get("resource", None)
ResourceOf(d) == d.meta["resource"]

\* the resource setter raises when "resource" is in _meta
SetterRaises(d) == d.meta["resource"] # Unset

\* the resource setter, when it does not raise
set_resource(d, value) == [d EXCEPT !.meta["resource"] = value]

\* Dataset.from_resource(r)
from_resource(r) ==
    set_resource(add_meta(add_meta(NewDataset(r), "directory", r),
                          "files", r), r)

NoOp == [op |-> "none", d |-> 0, key |-> "", raised |-> FALSE]

DatasetInit ==
    /\ ds = <<>>
    /\ dsLast = NoOp

\* ds = Dataset(name), with one of the resources' names
Construct(name) ==
    /\ Len(ds) < MaxDatasets
    /\ ds' = Append(ds, NewDataset(name))
    /\ dsLast' = [op |-> "init", d |-> Len(ds) + 1, key |-> "",
                  raised |-> FALSE]
    /\ UNCHANGED <<wfvars, colvars>>

\* ds = Dataset.from_resource(r)
FromResource(r) ==
    /\ Len(ds) < MaxDatasets
    /\ ds' = Append(ds, from_resource(r))
    /\ dsLast' = [op |-> "from_resource", d |-> Len(ds) + 1,
                  key |-> "resource", raised |-> FALSE]
    /\ UNCHANGED <<wfvars, colvars>>

\* ds[d].add_meta(key, value)
AddMeta(d, key, value) ==
    /\ d \in DOMAIN ds
    /\ ds' = [ds EXCEPT ![d] = add_meta(@, key, value)]
    /\ dsLast' = [op |-> "add_meta", d |-> d, key |-> key, raised |-> FALSE]
    /\ UNCHANGED <<wfvars, colvars>>

\* ds[d].resource = value
SetResource(d, value) ==
    /\ d \in DOMAIN ds
    /\ IF SetterRaises(ds[d])
       THEN /\ ds' = ds
            /\ dsLast' = [op |-> "resource", d |-> d, key |-> "resource",
                          raised |-> TRUE]
       ELSE /\ ds' = [ds EXCEPT ![d] = set_resource(@, value)]
            /\ dsLast' = [op |-> "resource", d |-> d, key |-> "resource",
                          raised |-> FALSE]
    /\ UNCHANGED <<wfvars, colvars>>

DatasetNext ==
    \/ \E r \in Values : Construct(r)
    \/ \E r \in Values : FromResource(r)
    \/ \E d \in 1..MaxDatasets, k \in MetaKeys, v \in Values : AddMeta(d, k, v)
    \/ \E d \in 1..MaxDatasets, v \in Values : SetResource(d, v)

(***************************************************************************)
(* OutputCollector.  __init__ turns the stdout and stderr arguments into a *)
(* method per stream and sets _delim only when phase_delim is given;       *)
(* collect starts a thread per stream and one that waits for the process,  *)
(* joins the waiting thread and then the stream threads.                   *)
(***************************************************************************)
Streams == {"out", "err"}

\* the stdout/stderr argument: True, False, or the path of a file
Destinations == {"echo", "discard", "file"}

\* __init__: the method of a stream and the progress argument bound to it;
\* "False" is the value False, which has no write()
MethodOf(arg) ==
    IF arg = "echo" THEN [fn |-> "_redirect", progress |-> "False"]
    ELSE IF arg = "discard" THEN [fn |-> "_vanish", progress |-> "none"]
    ELSE [fn |-> "_redirect", progress |-> "sys.stdout"]

\* __init__(phase_delim, stderr, stdout): has_delim says whether the
\* attribute _delim exists
Collector(phase_delim, stderr, stdout) ==
    [has_delim |-> phase_delim,
     methods |-> [n \in Streams |->
                     MethodOf(IF n = "err" THEN stderr ELSE stdout)]]

\* a line of output: its number in the process's output, the stream it goes to
\* and whether the delimiter matches it
Lines(n) == [k : {n}, stream : Streams, match : BOOLEAN]

Programs == UNION {{l \in [1..n -> UNION {Lines(k) : k \in 1..n}] :
                       \A k \in 1..n : l[k].k = k} : n \in 0..MaxLines}

\* (mutation) a line the delimiter matches is marked but not written to dest
RedirectLine_DropsMatches(col, n, line) ==
    IF ~col.has_delim THEN [written |-> TRUE, mark |-> 0, raised |-> TRUE]
    ELSE IF ~line.match THEN [written |-> TRUE, mark |-> 0, raised |-> FALSE]
    ELSE IF col.methods[n].progress = "False"
    THEN [written |-> FALSE, mark |-> 0, raised |-> TRUE]
    ELSE [written |-> FALSE, mark |-> 1, raised |-> FALSE]

\* what _redirect does with one line: the text goes to dest, then _delim is
\* read (AttributeError when it was never set) and, on a match, the mark goes
\* to progress (AttributeError when progress is False)
RedirectLine(col, n, line) ==
    IF ~col.has_delim THEN [written |-> TRUE, mark |-> 0, raised |-> TRUE]
    ELSE IF ~line.match THEN [written |-> TRUE, mark |-> 0, raised |-> FALSE]
    ELSE IF col.methods[n].progress = "False"
    THEN [written |-> TRUE, mark |-> 0, raised |-> TRUE]
    ELSE [written |-> TRUE, mark |-> 1, raised |-> FALSE]

\* what _vanish does with one line
VanishLine == [written |-> FALSE, mark |-> 0, raised |-> FALSE]

HandleLine(col, n, line) ==
    IF col.methods[n].fn = "_vanish" THEN VanishLine
    ELSE RedirectLine(col, n, line)

Threads == Streams \cup {"proc"}

\* no collector at work (in the specifications of the other components)
CollectorIdle ==
    /\ config = Collector(FALSE, "discard", "discard")
    /\ prog = <<>>
    /\ pipe = [n \in Streams |-> [cap |-> 1, buf |-> <<>>]]
    /\ proc = "exited"
    /\ thr = [t \in Threads |-> "done"]
    /\ mainpc = "returned"
    /\ delivered = [n \in Streams |-> <<>>]
    /\ consumed = [n \in Streams |-> 0]
    /\ markers = 0
    /\ closed = [n \in Streams |-> TRUE]

\* collect(proc) is called on a started process that has written nothing yet
CollectorInit ==
    /\ config \in {Collector(d, e, o) :
                     d \in BOOLEAN, e \in Destinations, o \in Destinations}
    /\ prog \in Programs
    /\ pipe \in {[n \in Streams |-> [cap |-> c, buf |-> <<>>]] : c \in 1..MaxCap}
    /\ proc = "running"
    /\ thr = [t \in Threads |-> "new"]
    /\ mainpc = "start_out"
    /\ delivered = [n \in Streams |-> <<>>]
    /\ consumed = [n \in Streams |-> 0]
    /\ markers = 0
    /\ closed = [n \in Streams |-> FALSE]

\* the subprocess writes its next line; the write blocks while the pipe is full
ProcWrite ==
    /\ proc = "running"
    /\ prog # <<>>
    /\ LET n == Head(prog).stream
       IN  /\ Len(pipe[n].buf) < pipe[n].cap
           /\ pipe' = [pipe EXCEPT ![n].buf = Append(@, Head(prog))]
    /\ prog' = Tail(prog)
    /\ UNCHANGED <<wfvars, dsvars>>
    /\ UNCHANGED <<config, proc, thr, mainpc, delivered, consumed, markers,
                   closed>>

\* the subprocess has written everything and exits, closing its ends
ProcExit ==
    /\ proc = "running"
    /\ prog = <<>>
    /\ proc' = "exited"
    /\ UNCHANGED <<wfvars, dsvars>>
    /\ UNCHANGED <<config, prog, pipe, thr, mainpc, delivered, consumed,
                   markers, closed>>

\* collect: for thr in io_threads: thr.start(); thr_proc.start()
Start(t) ==
    /\ mainpc = "start_" \o t
    /\ thr' = [thr EXCEPT ![t] = "running"]
    /\ mainpc' = IF t = "out" THEN "start_err"
                 ELSE IF t = "err" THEN "start_proc" ELSE "join_proc"
    /\ UNCHANGED <<wfvars, dsvars>>
    /\ UNCHANGED <<config, prog, pipe, proc, delivered, consumed, markers,
                   closed>>

\* collect: thr_proc.join(); for thr in io_threads: thr.join()
Join(t) ==
    /\ mainpc = "join_" \o t
    /\ thr[t] \in {"done", "crashed"}
    /\ mainpc' = IF t = "proc" THEN "join_out"
                 ELSE IF t = "out" THEN "join_err" ELSE "returned"
    /\ UNCHANGED <<wfvars, dsvars>>
    /\ UNCHANGED <<config, prog, pipe, proc, thr, delivered, consumed,
                   markers, closed>>

\* _run_process: process.wait()
WaitProcess ==
    /\ thr["proc"] = "running"
    /\ proc = "exited"
    /\ thr' = [thr EXCEPT !["proc"] = "done"]
    /\ UNCHANGED <<wfvars, dsvars>>
    /\ UNCHANGED <<config, prog, pipe, proc, mainpc, delivered, consumed,
                   markers, closed>>

\* _redirect, _vanish: one turn of "for line in stream"
ReadLine(n) ==
    /\ thr[n] = "running"
    /\ pipe[n].buf # <<>>
    /\ LET line == Head(pipe[n].buf)
           h == HandleLine(config, n, line)
       IN  /\ pipe' = [pipe EXCEPT ![n].buf = Tail(@)]
           /\ consumed' = [consumed EXCEPT ![n] = @ + 1]
           /\ delivered' = IF h.written
                           THEN [delivered EXCEPT ![n] = Append(@, line)]
                           ELSE delivered
           /\ markers' = markers + h.mark
           /\ thr' = IF h.raised THEN [thr EXCEPT ![n] = "crashed"] ELSE thr
    /\ UNCHANGED <<wfvars, dsvars>>
    /\ UNCHANGED <<config, prog, proc, mainpc, closed>>

\* _redirect, _vanish: the stream is at its end; stream.close()
EndOfStream(n) ==
    /\ thr[n] = "running"
    /\ pipe[n].buf = <<>>
    /\ proc = "exited"
    /\ closed' = [closed EXCEPT ![n] = TRUE]
    /\ thr' = [thr EXCEPT ![n] = "done"]
    /\ UNCHANGED <<wfvars, dsvars>>
    /\ UNCHANGED <<config, prog, pipe, proc, mainpc, delivered, consumed,
                   markers>>

CollectorNext ==
    \/ ProcWrite
    \/ ProcExit
    \/ \E t \in Threads : Start(t)
    \/ \E t \in Threads : Join(t)
    \/ WaitProcess
    \/ \E n \in Streams : ReadLine(n)
    \/ \E n \in Streams : EndOfStream(n)

(***************************************************************************)
(* The calls of ManagedWorkflow.  last records the call just made: its     *)
(* operation, its key (type tag, filename or step name), the inputs run    *)
(* saw, skip_check, how it ended, what the lookup found, the resource of   *)
(* the Dataset involved, and the size of the store before the call.        *)
(***************************************************************************)
NoCall ==
    [op |-> "none", key |-> "", inputs |-> NoInputs, skip |-> FALSE,
     outcome |-> "", found |-> 0, rid |-> 0, n0 |-> 0]

\* the set of resource ids a recorded call was given (empty for None)
IdSet(inputs) == Range(inputs.list)

\* of a call whose step function raised, last does not keep the inputs
Recorded(rec) ==
    IF rec.outcome = "failed" THEN [rec EXCEPT !.inputs = NoInputs] ELSE rec

\* the ManagedWorkflow instances that may share one store
Orchestrators == {1, 2}

\* an orchestrator between two calls
Idle == [pc |-> "idle", key |-> "", inputs |-> NoInputs, rid |-> 0]

WorkflowInit ==
    /\ resources = <<>>
    /\ relations = {}
    /\ last = NoCall
    /\ pending = [w \in Orchestrators |-> Idle]

Init == WorkflowInit /\ CollectorIdle /\ DatasetInit

\* get_dataset(type_, path=path)
GetDataset(type_, path) ==
    LET existing == FindOne(resources, type_)
        rec == [op |-> "get_dataset", key |-> type_, inputs |-> NoInputs,
                skip |-> FALSE, outcome |-> "", found |-> 0, rid |-> 0,
                n0 |-> Len(resources)]
    IN  /\ relations' = relations
        /\ UNCHANGED <<colvars, dsvars, pending>>
        /\ IF existing # 0
           THEN /\ resources' = resources
                /\ last' = [rec EXCEPT !.outcome = "reused", !.found = 1,
                                       !.rid = existing]
           ELSE IF ~KnownType(type_)
           THEN /\ resources' = resources
                /\ last' = [rec EXCEPT !.outcome = "KeyError"]
           ELSE /\ Len(resources) < MaxRes
                /\ resources' = Add(resources, DatasetName(type_, path), "")
                /\ last' = [rec EXCEPT !.outcome = "created",
                                       !.rid = Len(resources) + 1]

\* run_script: the stored resources named as the script's Dataset
ScriptResources(res, f) == Find(res, DatasetName("script", f))

\* (mutation) the script configuration is added without looking at the store
ScriptBranch_AlwaysAdd(n) == "add"

\* (mutation) several matches are taken for one
ScriptBranch_FirstMatch(n) == IF n = 0 THEN "add" ELSE "attach"

\* run_script: what the number of resources found for the script decides
ScriptBranch(n) ==
    IF n = 0 THEN "add" ELSE IF n = 1 THEN "attach" ELSE "raise"

\* run_script(filename)
RunScript(filename, outputs) ==
    LET name == DatasetName("script", filename)
        found == Find(resources, name)
        n == Cardinality(found)
        branch == ScriptBranch(n)
        res1 == IF branch = "add" THEN Add(resources, name, "") ELSE resources
        rid == IF branch = "add" THEN Len(resources) + 1 ELSE Min(found)
        skip_run_check == (branch = "add")
        inputs == [form |-> "list", list |-> <<rid>>]
        r == RunCall(res1, relations, RunnerName, inputs, skip_run_check,
                     outputs)
        rec == [op |-> "run_script", key |-> filename, inputs |-> inputs,
                skip |-> skip_run_check, outcome |-> "", found |-> n,
                rid |-> rid, n0 |-> Len(resources)]
    IN  /\ UNCHANGED <<colvars, dsvars, pending>>
        /\ IF branch = "raise"
           THEN /\ resources' = resources
                /\ relations' = relations
                /\ last' = [rec EXCEPT !.outcome = "ambiguous",
                                       !.inputs = NoInputs, !.rid = 0,
                                       !.skip = FALSE]
           ELSE /\ Len(r.res) <= MaxRes
                /\ resources' = r.res
                /\ relations' = r.rel
                /\ last' = Recorded([rec EXCEPT !.outcome = r.outcome])

\* run(method, inputs, skip_check)
Run(step_name, given, skip_check, outputs) ==
    LET r == RunCall(resources, relations, step_name, given, skip_check,
                     outputs)
        rec == [op |-> "run", key |-> step_name, inputs |-> Normalize(given),
                skip |-> skip_check, outcome |-> r.outcome,
                found |-> r.found, rid |-> 0, n0 |-> Len(resources)]
    IN  /\ Len(r.res) <= MaxRes
        /\ resources' = r.res
        /\ relations' = r.rel
        /\ last' = Recorded(rec)
        /\ UNCHANGED <<colvars, dsvars, pending>>

Next ==
    \/ \E t \in TypeTags, p \in Filenames : GetDataset(t, p)
    \/ \E f \in Filenames, o \in StepResults : RunScript(f, o)
    \/ \E s \in StepFns, i \in InputChoices(Datasets(resources)),
          k \in BOOLEAN, o \in StepResults : Run(s, i, k, o)

Spec == Init /\ [][Next]_vars

(***************************************************************************)
(* run, interrupted between the dmf.add of the step resource and the       *)
(* closing dmf.update(): the step resource and the first j output          *)
(* resources are in the store, no relation is.                             *)
(***************************************************************************)
\* (mutation) the relations created so far are in the store already
PartialPersist_Committed(res, rel, step_name, inputs, outputs, j) ==
    LET sid == Len(res) + 1
    IN  [res |-> AddOutputs(Add(res, step_name, "step"), SubSeq(outputs, 1, j)),
         rel |-> rel \cup InputRelations(sid, inputs)
                     \cup OutputRelations(sid, SubSeq(outputs, 1, j))]

PartialPersist(res, rel, step_name, inputs, outputs, j) ==
    [res |-> AddOutputs(Add(res, step_name, "step"), SubSeq(outputs, 1, j)),
     rel |-> rel]

\* run(method, inputs, skip_check), interrupted after the step function
\* returned outputs and j of them were added
RunInterrupted(step_name, given, skip_check, outputs, j) ==
    LET inputs == Normalize(given)
        existing == /\ ~skip_check
                    /\ Existing(resources, relations, step_name, InputIds(inputs))
        p == PartialPersist(resources, relations, step_name, inputs, outputs, j)
    IN  /\ ~existing
        /\ Len(p.res) <= MaxRes
        /\ resources' = p.res
        /\ relations' = p.rel
        /\ last' = [op |-> "run", key |-> step_name, inputs |-> inputs,
                    skip |-> skip_check, outcome |-> "interrupted",
                    found |-> 0, rid |-> Len(resources) + 1,
                    n0 |-> Len(resources)]
        /\ UNCHANGED <<colvars, dsvars, pending>>

NextInterrupted ==
    \/ \E t \in TypeTags, p \in Filenames : GetDataset(t, p)
    \/ \E s \in StepFns, i \in InputChoices(Datasets(resources)),
          k \in BOOLEAN, o \in StepResults : Run(s, i, k, o)
    \/ \E s \in StepFns, i \in InputChoices(Datasets(resources)),
          k \in BOOLEAN, o \in OutputChoices, j \in 0..1 :
          j <= Len(o) /\ RunInterrupted(s, i, k, o, j)

SpecInterrupted == Init /\ [][NextInterrupted]_vars

(***************************************************************************)
(* Two orchestrators on one store, without mutual exclusion.  A call is    *)
(* split where it reads or writes the store: the other orchestrator may    *)
(* act between a call's search of the store and the dmf.add and            *)
(* dmf.update() that follow it.  run is called with skip_check left false. *)
(***************************************************************************)
\* the inputs of the calls of run made here: None, or the Datasets T
PlainInputs(h) ==
    {NoInputs} \cup {[form |-> "list", list |-> Sorted(T)] : T \in SUBSET h}

Between(w) == pending[w].pc \in {"idle", "ambiguous", "failed"}

\* get_dataset: find_one(name=type_) and the creation of the Dataset
FindDataset(w, type_, path) ==
    /\ Between(w)
    /\ pending' = [pending EXCEPT ![w] =
                      IF FindOne(resources, type_) # 0 \/ ~KnownType(type_)
                      THEN Idle
                      ELSE [Idle EXCEPT !.pc = "dataset_add",
                                        !.key = DatasetName(type_, path)]]
    /\ UNCHANGED <<resources, relations, last, colvars, dsvars>>

\* get_dataset: _add_to_dmf(ds)
AddDataset(w) ==
    /\ pending[w].pc = "dataset_add"
    /\ Len(resources) < MaxRes
    /\ resources' = Add(resources, pending[w].key, "")
    /\ pending' = [pending EXCEPT ![w] = Idle]
    /\ UNCHANGED <<relations, last, colvars, dsvars>>

\* run: the idempotency check
CheckRun(w, step_name, given) ==
    /\ Between(w)
    /\ pending' = [pending EXCEPT ![w] =
                      IF Existing(resources, relations, step_name,
                                  InputIds(Normalize(given)))
                      THEN Idle
                      ELSE [Idle EXCEPT !.pc = "run_checked",
                                        !.key = step_name,
                                        !.inputs = Normalize(given)]]
    /\ UNCHANGED <<resources, relations, last, colvars, dsvars>>

\* run: the step function, then the step, its relations and outputs; of a
\* call whose step function raised, the orchestrator keeps what it called
FinishRun(w, outputs) ==
    LET r == RunCall(resources, relations, pending[w].key, pending[w].inputs,
                     TRUE, outputs)
    IN  /\ pending[w].pc = "run_checked"
        /\ Len(r.res) <= MaxRes
        /\ resources' = r.res
        /\ relations' = r.rel
        /\ pending' = [pending EXCEPT ![w] =
                          IF r.outcome = "failed"
                          THEN [pending[w] EXCEPT !.pc = "failed"]
                          ELSE Idle]
        /\ UNCHANGED <<last, colvars, dsvars>>

\* run_script: find(name=ds.name) and the branch on the number found
FindScript(w, filename) ==
    LET found == ScriptResources(resources, filename)
        branch == ScriptBranch(Cardinality(found))
    IN  /\ Between(w)
        /\ pending' = [pending EXCEPT ![w] =
              IF branch = "raise"
              THEN [Idle EXCEPT !.pc = "ambiguous", !.key = filename]
              ELSE IF branch = "add"
              THEN [Idle EXCEPT !.pc = "script_add", !.key = filename]
              ELSE [Idle EXCEPT !.pc = "script_check", !.key = filename,
                                !.rid = Min(found)]]
        /\ UNCHANGED <<resources, relations, last, colvars, dsvars>>

\* run_script: _add_to_dmf(ds), then run with skip_check true
AddScript(w) ==
    /\ pending[w].pc = "script_add"
    /\ Len(resources) < MaxRes
    /\ resources' = Add(resources, DatasetName("script", pending[w].key), "")
    /\ pending' = [pending EXCEPT ![w] =
                      [Idle EXCEPT !.pc = "run_checked", !.key = RunnerName,
                                   !.inputs = [form |-> "list",
                                               list |-> <<Len(resources) + 1>>]]]
    /\ UNCHANGED <<relations, last, colvars, dsvars>>

\* run_script: the resource found is attached, then run makes its check
CheckScript(w) ==
    LET inputs == [form |-> "list", list |-> <<pending[w].rid>>]
    IN  /\ pending[w].pc = "script_check"
        /\ pending' = [pending EXCEPT ![w] =
                          IF Existing(resources, relations, RunnerName,
                                      InputIds(inputs))
                          THEN Idle
                          ELSE [Idle EXCEPT !.pc = "run_checked",
                                            !.key = RunnerName,
                                            !.inputs = inputs]]
        /\ UNCHANGED <<resources, relations, last, colvars, dsvars>>

\* the steps of one orchestrator, whose step functions end in one of results
OrchestratorNext(w, results) ==
    \/ \E t \in TypeTags, p \in Filenames : FindDataset(w, t, p)
    \/ AddDataset(w)
    \/ \E i \in PlainInputs(Datasets(resources)) : CheckRun(w, UserStep, i)
    \/ \E o \in results : FinishRun(w, o)
    \/ \E f \in Filenames : FindScript(w, f)
    \/ AddScript(w)
    \/ CheckScript(w)

\* two orchestrators, with step functions that return
ConcurrentNext == \E w \in Orchestrators : OrchestratorNext(w, OutputChoices)

SpecConcurrent == Init /\ [][ConcurrentNext]_vars

\* one orchestrator alone, its calls split in the same way, with step
\* functions that return or raise
OneWriterNext == OrchestratorNext(1, StepResults)

SpecOneWriter == Init /\ [][OneWriterNext]_vars

\* one orchestrator that runs scripts only through run_script, with a runner
\* that returns, and makes no script Dataset through get_dataset
ScriptsNext ==
    \/ \E f \in Filenames, o \in OutputChoices : RunScript(f, o)
    \/ \E t \in {RTS_GMLC, "null"}, p \in Filenames : GetDataset(t, p)
    \/ \E i \in InputChoices(Datasets(resources)), k \in BOOLEAN,
          o \in StepResults : Run(UserStep, i, k, o)

SpecScripts == Init /\ [][ScriptsNext]_vars

InitCollector == WorkflowInit /\ CollectorInit /\ DatasetInit

SpecCollector == InitCollector /\ [][CollectorNext]_vars

SpecDataset == Init /\ [][DatasetNext]_vars

(***************************************************************************)
(* C1.  Idempotency of run: right after a call run(s, inputs) with         *)
(* skip_check false that returned, a second call with the same step and    *)
(* the same set of input ids, skip_check false, does not invoke the step   *)
(* function, whatever that function would do, and leaves the resources and *)
(* relations of the store as they were; of the two calls only the first    *)
(* can have invoked it, and it did unless the pair was recorded already.   *)
(***************************************************************************)
ReturnedRun(l) ==
    l.op = "run" /\ ~l.skip /\ l.outcome \in {"ran", "skipped"}

C1_RunIdempotent ==
    [][ReturnedRun(last) =>
          /\ last.outcome = "ran" <=> last.found = 0
          /\ \A o \in StepResults :
                Run(last.key, last.inputs, FALSE, o)
                   => /\ last'.outcome = "skipped"
                      /\ resources' = resources
                      /\ relations' = relations]_vars

\* a second call was made and skipped: the step is stored once, with inputs
C1_Witness ==
    /\ ReturnedRun(last)
    /\ last.outcome = "skipped"
    /\ last.inputs.list # <<>>
    /\ Cardinality(Find(resources, last.key)) = 1

(***************************************************************************)
(* C2.  Input-set sensitivity of run: right after a call run(s, I1) with   *)
(* skip_check false that returned, a call run(s, I2) with a different set  *)
(* of input ids, skip_check false, whose step function returns, is skipped *)
(* only if a step named s with exactly the inputs I2 was stored before it; *)
(* otherwise the step function is invoked, and either way the store then   *)
(* holds two step resources named s, one with the uses-set I1 and one with *)
(* the uses-set I2.                                                        *)
(***************************************************************************)
\* the stored resources named s whose uses relations point at exactly ids
StepsWith(res, rel, s, ids) ==
    {sid \in Find(res, s) :
        {t.obj : t \in {u \in rel : u.subj = sid /\ u.pred = uses}} = ids}

\* the step from last to last' is a call run(s, I2), skip_check false, that
\* returned, after the call run(s, I1) that last records
OtherInputs ==
    /\ last'.op = "run"
    /\ last'.key = last.key
    /\ ~last'.skip
    /\ last'.outcome \in {"ran", "skipped"}
    /\ IdSet(last'.inputs) # IdSet(last.inputs)

C2_InputSetSensitive ==
    [][(ReturnedRun(last) /\ OtherInputs) =>
          /\ last'.outcome = "skipped" <=>
                StepsWith(resources, relations, last.key,
                          IdSet(last'.inputs)) # {}
          /\ last'.outcome = "ran" => Len(resources') > Len(resources)
          /\ StepsWith(resources', relations', last.key,
                       IdSet(last.inputs)) # {}
          /\ StepsWith(resources', relations', last.key,
                       IdSet(last'.inputs)) # {}
          /\ StepsWith(resources', relations', last.key, IdSet(last.inputs))
                \cap StepsWith(resources', relations', last.key,
                               IdSet(last'.inputs)) = {}]_vars

\* the same step ran with two input sets: it is stored twice, once with no
\* inputs and once with some
C2_Witness ==
    /\ ReturnedRun(last)
    /\ last.outcome = "ran"
    /\ Cardinality(Find(resources, last.key)) = 2
    /\ StepsWith(resources, relations, last.key, {}) # {}
    /\ StepsWith(resources, relations, last.key, IdSet(last.inputs)) # {}
    /\ IdSet(last.inputs) # {}

(***************************************************************************)
(* C8.  Script dedup: a call run_script(f) on an empty store finds no      *)
(* resource for the script, adds one and runs the runner with the          *)
(* idempotency check skipped; the next call run_script(f) finds exactly    *)
(* that resource, attaches it without adding a script resource and applies *)
(* the idempotency check (the runner is not invoked again if the first     *)
(* call recorded its step), so one script-configuration resource is        *)
(* stored.                                                                 *)
(***************************************************************************)
C8_ScriptDedup ==
    [][(last.op = "run_script" /\ last.n0 = 0) =>
          /\ last.found = 0
          /\ last.skip
          /\ last.outcome \in {"ran", "failed"}
          /\ ScriptResources(resources, last.key) = {last.rid}
          /\ \A o \in StepResults :
                RunScript(last.key, o)
                   => /\ last'.found = 1
                      /\ ~last'.skip
                      /\ last'.rid = last.rid
                      /\ ScriptResources(resources', last.key) = {last.rid}
                      /\ last.outcome = "ran" =>
                            /\ last'.outcome = "skipped"
                            /\ resources' = resources
                            /\ relations' = relations
                      /\ last.outcome = "failed" =>
                            last'.outcome =
                               IF o = Raises THEN "failed" ELSE "ran"]_vars

\* the second call of run_script for a file: one script resource, found and
\* attached, the check applied and the runner skipped
C8_Witness ==
    /\ last.op = "run_script"
    /\ last.found = 1
    /\ ~last.skip
    /\ last.outcome = "skipped"
    /\ ScriptResources(resources, last.key) = {1}
    /\ Cardinality(Find(resources, RunnerName)) = 1

(***************************************************************************)
(* C9.  Ambiguity detection: whenever the store holds more than one        *)
(* resource named as the script configuration of f, run_script(f) ends     *)
(* with the error for ambiguous resources, without invoking the runner,    *)
(* and leaves the resources and relations of the store unchanged.          *)
(***************************************************************************)
C9_AmbiguityDetected ==
    [][\A f \in Filenames, o \in StepResults :
          (Cardinality(ScriptResources(resources, f)) > 1 /\ RunScript(f, o))
             => /\ last'.outcome = "ambiguous"
                /\ resources' = resources
                /\ relations' = relations]_vars

C9_Witness ==
    /\ last.op = "run_script"
    /\ last.outcome = "ambiguous"
    /\ Cardinality(ScriptResources(resources, last.key)) > 1

(***************************************************************************)
(* C10.  get_dataset reuse, as claimed: right after get_dataset(t)         *)
(* returned a Dataset, another get_dataset(t), whatever its creation       *)
(* arguments, returns the Dataset of the same resource and adds nothing to *)
(* the store.  (The type "script" breaks it: its resource is not named     *)
(* "script".)                                                              *)
(***************************************************************************)
C10_GetDatasetReuse ==
    [][(last.op = "get_dataset" /\ last.outcome \in {"created", "reused"}) =>
          \A p \in Filenames :
             GetDataset(last.key, p)
                => /\ last'.outcome = "reused"
                   /\ last'.rid = last.rid
                   /\ resources' = resources]_vars

(***************************************************************************)
(* C3.  Collector return guarantee, as claimed: once collect has returned, *)
(* the process has exited, each stream thread has read its stream to the   *)
(* end and closed it, the waiting thread is done, and no line is left in a *)
(* pipe.                                                                   *)
(***************************************************************************)
C3_ReturnGuarantee ==
    mainpc = "returned" =>
       /\ proc = "exited"
       /\ thr["proc"] = "done"
       /\ \A n \in Streams :
             thr[n] = "done" /\ closed[n] /\ pipe[n].buf = <<>>

(***************************************************************************)
(* C4.  Collector deadlock freedom, as claimed: the process is never       *)
(* blocked writing to a full pipe whose stream thread has ended and will   *)
(* not read again.                                                         *)
(***************************************************************************)
ProcessBlocked ==
    /\ proc = "running"
    /\ prog # <<>>
    /\ Len(pipe[Head(prog).stream].buf) = pipe[Head(prog).stream].cap

C4_NoStuckProcess ==
    ~(ProcessBlocked /\ thr[Head(prog).stream] \in {"done", "crashed"})

(***************************************************************************)
(* C5.  Collector completeness, as claimed: once collect has returned,     *)
(* every line the process wrote to a stream was read, and was delivered to *)
(* the stream's destination unless the stream is discarded, in which case  *)
(* none was.                                                               *)
(***************************************************************************)
\* the lines of stream n still to be written by the process
Unwritten(n) == {i \in DOMAIN prog : prog[i].stream = n}

\* the number of lines the process emits on stream n
Emitted(n) == consumed[n] + Len(pipe[n].buf) + Cardinality(Unwritten(n))

C5_Complete ==
    mainpc = "returned" =>
       \A n \in Streams :
          /\ consumed[n] = Emitted(n)
          /\ Len(delivered[n]) =
                IF config.methods[n].fn = "_vanish" THEN 0 ELSE Emitted(n)

(***************************************************************************)
(* C6.  Progress marker count, as claimed: with a delimiter configured,    *)
(* once collect has returned the marks written to sys.stdout number the    *)
(* lines of the streams not discarded that the delimiter matches.          *)
(***************************************************************************)
\* the matching lines of a sequence of lines
Matching(lines) == {i \in DOMAIN lines : lines[i].match}

\* the matching lines the process emits on stream n, a stream not discarded
\* (every line read from it was written to its destination)
MatchesOn(n) ==
    Cardinality(Matching(delivered[n])) + Cardinality(Matching(pipe[n].buf))
       + Cardinality({i \in Unwritten(n) : prog[i].match})

Redirected == {n \in Streams : config.methods[n].fn = "_redirect"}

C6_MarkerCount ==
    (mainpc = "returned" /\ config.has_delim) =>
       markers = (IF "out" \in Redirected THEN MatchesOn("out") ELSE 0)
                 + (IF "err" \in Redirected THEN MatchesOn("err") ELSE 0)

(***************************************************************************)
(* C7.  Dataset resource immutability, as claimed: once a Dataset has a    *)
(* resource, no operation changes it, and every operation that sets the    *)
(* "resource" entry again raises.                                          *)
(***************************************************************************)
C7_ResourceImmutable ==
    [][\A d \in DOMAIN ds :
          ResourceOf(ds[d]) # Unset =>
             /\ ResourceOf(ds'[d]) = ResourceOf(ds[d])
             /\ (dsLast'.d = d /\ dsLast'.key = "resource" /\ dsLast' # dsLast)
                   => dsLast'.raised]_vars

(***************************************************************************)
(* C11.  One-way step state: no call removes or changes a stored resource  *)
(* or removes a relation, and in every state, for every stored step        *)
(* resource named s with the uses-set I, a call run(s, I) with skip_check  *)
(* false is skipped and leaves the store as it is (a call without inputs   *)
(* too, when I is empty): such a call neither runs nor fails.              *)
(***************************************************************************)
\* the uses-set of a stored step
UsesOf(rel, sid) == {t.obj : t \in {u \in rel : u.subj = sid /\ u.pred = uses}}

\* the calls of run whose input-id set is ids
CallsWith(ids) ==
    {[form |-> "list", list |-> Sorted(ids)]}
       \cup (IF ids = {} THEN {NoInputs} ELSE {})

C11_OneWay ==
    [][/\ Len(resources') >= Len(resources)
       /\ \A i \in DOMAIN resources : resources'[i] = resources[i]
       /\ relations \subseteq relations'
       /\ (last'.op = "run" /\ ~last'.skip) =>
             IF last'.outcome = "failed"
             THEN \* the call that failed had the inputs of no stored step
                  \A sid \in Find(resources, last'.key) :
                     \A i \in CallsWith(UsesOf(relations, sid)) :
                        ~Run(last'.key, i, FALSE, Raises)
             ELSE StepsWith(resources, relations, last'.key,
                            IdSet(last'.inputs)) # {}
                     => /\ last'.outcome = "skipped"
                        /\ resources' = resources
                        /\ relations' = relations]_vars

\* a step recorded with inputs is found again after the store has grown
C11_Witness ==
    /\ last.op = "run"
    /\ ~last.skip
    /\ last.outcome = "skipped"
    /\ IdSet(last.inputs) # {}
    /\ \E sid \in StepsWith(resources, relations, last.key, IdSet(last.inputs)) :
          sid < Len(resources)

(***************************************************************************)
(* C12.  Sole idempotency key: right after a call run(s, inputs) with      *)
(* skip_check false that returned, a call run(s, inputs2) with skip_check  *)
(* false whose inputs have the same set of resource ids, in whatever order *)
(* and with whatever repetitions, is skipped and leaves the store as it    *)
(* is, whatever the step function would do with the arguments passed on to *)
(* it: such a call neither runs nor fails.                                 *)
(***************************************************************************)
\* the inputs a caller can give whose id set is T
SameSetCalls(T) ==
    {[form |-> "list", list |-> l] : l \in ListsOf(T)}
       \cup {[form |-> "single", list |-> <<i>>] : i \in {j \in T : T = {j}}}

C12_SoleKey ==
    [][(/\ ReturnedRun(last)
        /\ last.inputs.form # "none"
        /\ last'.op = "run"
        /\ last'.key = last.key
        /\ ~last'.skip) =>
          IF last'.outcome = "failed"
          THEN \A i \in SameSetCalls(IdSet(last.inputs)) :
                  ~Run(last.key, i, FALSE, Raises)
          ELSE (/\ last'.inputs.form # "none"
                /\ IdSet(last'.inputs) = IdSet(last.inputs))
                  => /\ last'.outcome = "skipped"
                     /\ resources' = resources
                     /\ relations' = relations]_vars

\* a call was skipped whose inputs came in another order, or repeated, than
\* the increasing one; the step is stored once
C12_Witness ==
    /\ ReturnedRun(last)
    /\ last.outcome = "skipped"
    /\ Len(last.inputs.list) >= 2
    /\ last.inputs.list # Sorted(IdSet(last.inputs))
    /\ Cardinality(Find(resources, last.key)) = 1

(***************************************************************************)
(* C13.  Provenance graph: a call that invoked the step function and       *)
(* returned adds one step resource, whose uses relations, as the           *)
(* idempotency check reads them back, point at exactly the resource ids of *)
(* the inputs given, and one output resource per key the step function     *)
(* returned, each with one relation, derived, to that step; no relation is *)
(* ever added to a resource stored earlier.  So in every state a uses      *)
(* relation leads from a step to a dataset, a derived relation from an     *)
(* output to a step, and the input ids read back for a step are its        *)
(* uses-set.                                                               *)
(***************************************************************************)
\* the resources the step from this state to the next adds, by description
Added(desc) ==
    {j \in (Len(resources) + 1)..Len(resources') : resources'[j].desc = desc}

\* the relations of the next state a resource takes part in
RelationsOf(j) == {t \in relations' : t.subj = j \/ t.obj = j}

\* the next state's graph is well formed
GraphShape ==
    /\ \A t \in relations' :
          /\ t.pred = uses =>
                /\ resources'[t.subj].desc = "step"
                /\ resources'[t.obj].desc # "step"
          /\ t.pred = derived =>
                /\ resources'[t.subj].desc = "output"
                /\ resources'[t.obj].desc = "step"
    /\ \A sid \in DOMAIN resources' :
          resources'[sid].desc = "step" =>
             ProcStepInputIds(relations', sid) = UsesOf(relations', sid)

\* the call recorded in last' invoked a step function returning the keys o
Invoked(o) ==
    \/ last'.op = "run" /\ Run(last'.key, last'.inputs, last'.skip, o)
    \/ last'.op = "run_script" /\ RunScript(last'.key, o)

C13_Provenance ==
    [][(resources' # resources \/ relations' # relations) =>
          /\ GraphShape
          /\ \A t \in relations' \ relations : t.subj > Len(resources)
          /\ last'.outcome = "ran" =>
                /\ Cardinality(Added("step")) = 1
                /\ \A sid \in Added("step") :
                      /\ resources'[sid].name =
                            (IF last'.op = "run" THEN last'.key ELSE RunnerName)
                      /\ ProcStepInputIds(relations', sid) = IdSet(last'.inputs)
                      /\ \A j \in Added("output") :
                            RelationsOf(j) =
                               {[subj |-> j, pred |-> derived, obj |-> sid]}
                /\ \A o \in OutputChoices :
                      Invoked(o) =>
                         /\ Cardinality(Added("output")) = Len(o)
                         /\ {resources'[j].name : j \in Added("output")}
                               = Range(o)
          /\ last'.outcome # "ran" => relations' = relations]_vars

\* a step ran with an input and returned an output: three resources, a uses
\* relation and a derived relation
C13_Witness ==
    /\ last.op = "run"
    /\ last.outcome = "ran"
    /\ IdSet(last.inputs) # {}
    /\ \E t \in relations : t.pred = derived /\ t.obj = last.n0 + 1
    /\ \E t \in relations : t.pred = uses /\ t.subj = last.n0 + 1

(***************************************************************************)
(* C14.  None and empty inputs are one idempotency key: a call run(s)      *)
(* with skip_check false whose inputs are None or an empty sequence is     *)
(* skipped exactly when the store holds a step named s without uses        *)
(* relations, whatever steps named s with inputs it holds; so right after  *)
(* one of the two calls returned, the other is skipped.                    *)
(***************************************************************************)
EmptyList == [form |-> "list", list |-> <<>>]

C14_NoneIsEmpty ==
    [][(last'.op = "run" /\ ~last'.skip) =>
          IF last'.outcome = "failed"
          THEN \* a call without inputs fails only if no such step is stored
               StepsWith(resources, relations, last'.key, {}) # {}
                  => \A i \in {NoInputs, EmptyList} :
                        ~Run(last'.key, i, FALSE, Raises)
          ELSE last'.inputs \in {NoInputs, EmptyList} =>
                  /\ last'.outcome = "skipped" <=>
                        StepsWith(resources, relations, last'.key, {}) # {}
                  /\ (/\ ReturnedRun(last)
                      /\ last.key = last'.key
                      /\ last.inputs \in {NoInputs, EmptyList})
                        => last'.outcome = "skipped"]_vars

\* a call with an empty sequence was skipped, in a store that holds the step
\* once without inputs and also with an input
C14_Witness ==
    /\ ReturnedRun(last)
    /\ last.inputs = EmptyList
    /\ last.outcome = "skipped"
    /\ Cardinality(StepsWith(resources, relations, last.key, {})) = 1
    /\ \E sid \in Find(resources, last.key) : UsesOf(relations, sid) # {}

(***************************************************************************)
(* C15.  Partial-commit gap: right after a call run(s, I) with I not empty *)
(* was interrupted between adding its step resource and committing its     *)
(* relations, the store holds that step resource without uses relations,   *)
(* a call run(s) with skip_check false and inputs None or empty is skipped *)
(* (it neither runs nor fails), and a call run(s, I) with skip_check false *)
(* is not skipped unless a step named s with the inputs I was stored       *)
(* before.                                                                 *)
(***************************************************************************)
InterruptedWithInputs ==
    last.op = "run" /\ last.outcome = "interrupted" /\ IdSet(last.inputs) # {}

C15_PartialCommitGap ==
    [][InterruptedWithInputs =>
          /\ last.rid \in StepsWith(resources, relations, last.key, {})
          /\ (last'.op = "run" /\ last'.key = last.key /\ ~last'.skip) =>
                IF last'.outcome = "failed"
                THEN \A i \in {NoInputs, EmptyList} :
                        ~Run(last.key, i, FALSE, Raises)
                ELSE /\ last'.inputs.list = <<>> =>
                           /\ last'.outcome = "skipped"
                           /\ resources' = resources
                     /\ (/\ IdSet(last'.inputs) = IdSet(last.inputs)
                         /\ StepsWith(resources, relations, last.key,
                                      IdSet(last.inputs)) = {})
                           => last'.outcome # "skipped"]_vars

\* the interrupted call's step is the only one of its name: the step never
\* ran without inputs, and is stored without inputs
C15_Witness ==
    /\ InterruptedWithInputs
    /\ ~last.skip
    /\ Find(resources, last.key) = {last.rid}
    /\ UsesOf(relations, last.rid) = {}

(***************************************************************************)
(* C16.  Per-stream order: for each stream that is not discarded, the      *)
(* lines delivered to its destination, then the lines waiting in its pipe, *)
(* then the lines of that stream the process has still to write, are at    *)
(* every moment the same sequence, the one the process writes to that      *)
(* stream, and the destination only ever grows at its end; so the lines    *)
(* delivered are always a prefix, in order, of the lines written.  A       *)
(* discarded stream delivers nothing.  Nothing relates the lines of the    *)
(* two streams.                                                            *)
(***************************************************************************)
\* the lines of stream n among the lines l
OfStream(l, n) ==
    LET OnN(x) == x.stream = n
    IN  SelectSeq(l, OnN)

\* delivered, waiting and still to be written, in this order
WholeStream(n) == delivered[n] \o pipe[n].buf \o OfStream(prog, n)

IsPrefix(a, b) == Len(a) <= Len(b) /\ SubSeq(b, 1, Len(a)) = a

C16_PerStreamOrder ==
    [][\A n \in Streams :
          /\ IsPrefix(delivered[n], delivered'[n])
          /\ IF n \in Redirected
             THEN WholeStream(n)' = WholeStream(n)
             ELSE delivered'[n] = <<>>]_vars

\* a line of stderr is delivered while an earlier line of stdout waits in
\* its pipe, behind a line of stdout already delivered
C16_Witness ==
    /\ delivered["out"] # <<>>
    /\ \E i \in DOMAIN delivered["err"], j \in DOMAIN pipe["out"].buf :
          pipe["out"].buf[j].k < delivered["err"][i].k

(***************************************************************************)
(* C17.  Single-writer dependence: with two orchestrators on one store, a  *)
(* call of run passes its idempotency check only when no step with its     *)
(* name and inputs is stored, but it is not checked again: once the check  *)
(* is passed and the step function has returned, the call stores a further *)
(* step with that name and those inputs, whatever the other orchestrator   *)
(* stored in between.  Likewise a call of run_script that found no         *)
(* resource for its script stores one, whatever was stored in between, and *)
(* a call of run_script that finds more than one fails as ambiguous.       *)
(***************************************************************************)
\* orchestrator w takes the step from this state to the next
Acts(w) == pending'[w] # pending[w]

C17_SingleWriterOnly ==
    [][\A w \in Orchestrators :
          /\ (/\ (Between(w) \/ pending[w].pc = "script_check")
              /\ pending'[w].pc = "run_checked")
                => StepsWith(resources, relations, pending'[w].key,
                             IdSet(pending'[w].inputs)) = {}
          /\ (pending[w].pc = "run_checked" /\ Acts(w)
                /\ resources' # resources)
                => Cardinality(StepsWith(resources', relations',
                                         pending[w].key,
                                         IdSet(pending[w].inputs)))
                     = Cardinality(StepsWith(resources, relations,
                                             pending[w].key,
                                             IdSet(pending[w].inputs))) + 1
          /\ (pending[w].pc = "script_add" /\ Acts(w))
                => Cardinality(ScriptResources(resources', pending[w].key))
                     = Cardinality(ScriptResources(resources,
                                                   pending[w].key)) + 1
          /\ \A f \in Filenames :
                (Cardinality(ScriptResources(resources, f)) > 1
                   /\ FindScript(w, f))
                   => pending'[w].pc = "ambiguous"]_vars

\* both orchestrators passed the check for one step and the same inputs
\* before either stored it: the step is stored twice
C17_Witness ==
    \E a, b \in Find(resources, UserStep) :
       /\ a # b
       /\ UsesOf(relations, a) = UsesOf(relations, b)

(***************************************************************************)
(* C18.  A failed step stays never run: when the step function raises in a *)
(* call run(s, I) of a single orchestrator, the call ends there, without   *)
(* invoking it again, and leaves the resources and relations of the store  *)
(* as they were; as long as the orchestrator makes no other call no step   *)
(* named s with the inputs I is stored, and a call run(s, I) with          *)
(* skip_check false passes the idempotency check, so that the step         *)
(* function is invoked again.                                              *)
(***************************************************************************)
C18_FailedStaysNeverRun ==
    [][/\ FinishRun(1, Raises) =>
             /\ resources' = resources
             /\ relations' = relations
             /\ pending'[1].pc = "failed"
       /\ pending[1].pc = "failed" =>
             /\ StepsWith(resources, relations, pending[1].key,
                          IdSet(pending[1].inputs)) = {}
             /\ CheckRun(1, pending[1].key, pending[1].inputs)
                   => pending'[1] = [pending[1] EXCEPT !.pc = "run_checked"]]_vars

\* the step function raised in a call with inputs, and no step of that name
\* is stored
C18_Witness ==
    /\ pending[1].pc = "failed"
    /\ pending[1].key = UserStep
    /\ IdSet(pending[1].inputs) # {}
    /\ Find(resources, UserStep) = {}

(***************************************************************************)
(* C19.  A script runs once per filename: when one orchestrator reaches    *)
(* the runner only through run_script, on a store that was empty, and the  *)
(* runner returns, a call run_script(f) invokes the runner exactly when no *)
(* resource for the script f is stored, and is skipped otherwise; so in    *)
(* every state each script has at most one resource, and a script that has *)
(* one has exactly one runner step with that resource as its uses-set.     *)
(***************************************************************************)
\* the runner steps recorded for the stored script f
RunnerSteps(res, rel, f) ==
    {sid \in Find(res, RunnerName) :
        UsesOf(rel, sid) \subseteq ScriptResources(res, f)
           /\ UsesOf(rel, sid) # {}}

C20_ScriptUnique ==
    /\ \A f \in Filenames : Cardinality(ScriptResources(resources, f)) <= 1
    /\ ~(last.op = "run_script" /\ last.outcome = "ambiguous")

=============================================================================
